---- MODULE Spec2Model ----
(***************************************************************************)
(* Model of the tenant package of fatah-illah/salva: the TenantManager     *)
(* registry, the per-tenant TenantConsumer (dispatcher consumeLoop and its *)
(* worker goroutines with retry / DLQ), the HTTP handlers that call the    *)
(* manager, and the cursor pagination of GetMessages / ListMessages.       *)
(* Spec: requests for one tenant id; SpecTenants: create and delete for    *)
(* two tenant ids; SpecLive, SpecDrain: fair scheduling of the goroutines; *)
(* SpecPage, SpecInsert: page traversals, without and with inserts;        *)
(* SpecTeardown: a delete taken statement by statement; SpecService: the   *)
(* service layer (TenantService, worker.WorkerPool, cmd/server shutdown);  *)
(* SpecOnce, SpecStop: one registered consumer under fair scheduling, its  *)
(* manager calls and its stop; SpecPool: WorkerPool.SetSize on one pool.   *)
(***************************************************************************)
EXTENDS Integers, Sequences, FiniteSets, TLC

(* ------------------------------ bounds -------------------------------- *)
MaxN         == 1      \* largest worker count a caller passes
MaxMsgs      == 1      \* broker messages ever published
TaskChCap    == 1      \* capacity of TaskCh (100 in the source), scaled down
MaxRows      == 4      \* message ids the store may hold
MaxTime      == 2      \* distinct created_at values
MaxLimit     == 3      \* largest page size requested (100 in the source)
MaxCalls     == 6      \* page requests of one traversal
MaxNacks     == 4      \* requeues of one message that are followed
MaxPool      == 4      \* goroutines of one resized pool, and tasks buffered in it

(* -------------------------- program constants ------------------------- *)
maxRetry     == 3      \* startWorkers: maxRetry := 3
MAX_ATTEMPTS == 3      \* the retry bound the claims speak of
DefaultWorkers == 3    \* CreateTenant: worker.NewWorkerPool(3), Workers: 3
taskChanCap  == 1024   \* NewWorkerPool: make(chan func(), 1024)

Tenants   == {"t1", "t2"}
Ids       == {"t1"}              \* tenant ids the requests of Spec carry
NoTenant  == "none"
CIds      == {1, 2}              \* TenantConsumer objects (a registered one and one more)
Slots     == 1..MaxN
Msgs      == 1..(MaxMsgs + 1)    \* message ids: MaxMsgs published one by one, and
                                 \* one more for a producer that sends a burst
Callers   == {1, 2}             \* concurrent HTTP requests (one holds the lock,
                                 \* one more competes for it)
NVals     == (-1)..MaxN          \* ConcurrencyRequest.Workers is any int

VARIABLES
  mu,           \* TenantManager.mu: 0 = unlocked, else the caller holding it
  consumers,    \* TenantManager.consumers: tenant id -> consumer (0 = absent)
  tc,           \* the TenantConsumer objects
  worker,       \* worker goroutines of each consumer
  consumeLoop,  \* dispatcher goroutine of each consumer
  call,         \* the manager call each HTTP request is executing
  declared,     \* broker: declared queues
  queue,        \* broker: ready messages of tenant_<id>_queue
  msgs,         \* per delivery: what the core did with it
  workerGauge,  \* tenant_workers gauge
  store,        \* rows of the messages table: [id, created_at]
  partitions,   \* tenant ids that have a partition of the messages table
  tenantRows,   \* ids of the rows of the tenants table
  limit,        \* page size of the traversal
  start,        \* cursor of the first request
  cursor,       \* cursor of the latest request
  page,         \* ids of the latest page, in the order returned
  nextCursor,   \* next_cursor of the latest page (0 is the empty string)
  seen,         \* ids returned so far by the traversal
  calls,        \* page requests made
  reader,       \* "get": TenantManager.GetMessages, "list": ListMessages
  pool,         \* service layer: per tenant, its context, WorkerPool and consumer
  activeTenants,\* service layer: domain.TenantManager.activeTenants
  proc          \* service layer: the server process

mvars == <<mu, consumers, tc, worker, consumeLoop, call, declared, queue,
           msgs, workerGauge>>
pvars == <<store, partitions, tenantRows, limit, start, cursor, page,
           nextCursor, seen, calls, reader>>
svars == <<pool, activeTenants, proc>>
vars  == <<mvars, pvars, svars>>

(* ------------------------------ helpers ------------------------------- *)
QueueName(id) == <<id, "queue">>
DlqName(id)   == <<id, "dlq">>

NoConsumer == [ID |-> NoTenant, StopCh |-> "open",
               TaskCh |-> <<>>, workerStopChans |-> <<>>,
               amqpChannel |-> "nil", amqpDeliveryCh |-> "closed"]
NoWorker   == [pc |-> "none", msg |-> 0, attempt |-> 0]
NoLoop     == [pc |-> "none", msg |-> 0]
\* a manager call: pre is the registry entry it found, pend the deliveries
\* that were in the TaskCh of that consumer when a delete began
Idle       == [op |-> "idle", id |-> NoTenant, n |-> 0, phase |-> "idle",
               pre |-> 0, pend |-> <<>>, ret |-> ""]
NoMsg      == [q |-> NoTenant, owner |-> 0, att |-> 0, rows |-> 0,
               acks |-> 0, nacks |-> 0, dlq |-> 0]

\* sync.WaitGroup counter of consumer c: one per running worker goroutine
wg(c) == Cardinality({i \in Slots : worker[c][i].pc # "none"})

\* a stop channel of the list is already closed (close() of it panics)
AnyClosed(chans) == \E i \in 1..Len(chans) : chans[i] = "closed"

AllClosed(chans) == [i \in 1..Len(chans) |-> "closed"]
FreshChans(n)    == [i \in 1..n |-> "open"]

\* a manager that does not take its lock
CanLock_unlocked == TRUE

\* tm.mu.Lock() goes through: no call holds the mutex
CanLock == mu = 0

\* The return of a manager call (its deferred Unlock and the handler's
\* response) is one step with the call's last statement: no goroutine step is
\* placed between the two.
NotReturning == \A k \in Callers : call[k].phase # "ret"

Published == {m \in Msgs : msgs[m].q # NoTenant}
Allocated == {c \in CIds : tc[c].ID # NoTenant}

(* ------------------------------- Init --------------------------------- *)
MInit ==
  /\ mu = 0
  /\ consumers = [t \in Tenants |-> 0]
  /\ tc = [c \in CIds |-> NoConsumer]
  /\ worker = [c \in CIds |-> [i \in Slots |-> NoWorker]]
  /\ consumeLoop = [c \in CIds |-> NoLoop]
  /\ call = [k \in Callers |-> Idle]
  /\ declared = {}
  /\ queue = [t \in Tenants |-> <<>>]
  /\ msgs = [m \in Msgs |-> NoMsg]
  /\ workerGauge = [t \in Tenants |-> 0]

PIdle ==
  /\ store = {}
  /\ partitions = {}
  /\ tenantRows = {}
  /\ limit = 1
  /\ start = 0
  /\ cursor = 0
  /\ page = <<>>
  /\ nextCursor = 0
  /\ seen = <<>>
  /\ calls = 0
  /\ reader = "off"

\* service layer: nothing created, the server runs
\* the worker goroutines of a pool run the same loop and are told apart by
\* nothing: idle of them wait in "range p.taskChan", running holds the
\* deliveries whose tasks are being executed, exited have left the loop
NoPool == [ctx |-> "none", taskChan |-> <<>>, closed |-> FALSE,
           workerCount |-> 0, idle |-> 0, running |-> {}, exited |-> 0,
           consumer |-> [pc |-> "none", msg |-> 0],
           run |-> "none", msgsCh |-> "none", channel |-> "none"]
NoTenantContext == [exists |-> FALSE, Workers |-> 0]

SIdle ==
  /\ pool = [t \in Tenants |-> NoPool]
  /\ activeTenants = [t \in Tenants |-> NoTenantContext]
  /\ proc = "running"

Init == MInit /\ PIdle /\ SIdle

(* ----------------------- TenantConsumer.startWorkers ------------------ *)
\* the worker goroutines startWorkers(n) spawns (n >= 0)
SpawnWorkers(n) == [i \in Slots |-> IF i <= n THEN [pc |-> "select", msg |-> 0, attempt |-> 0]
                                         ELSE NoWorker]

(* ----------------------- TenantManager.AddTenantWithAMQP -------------- *)
\* Handler.CreateTenant -> AddTenantWithAMQP; the whole call runs with the
\* lock held and waits for nothing, so it is one step up to its return.
AddOutcomes == {"ok", "channelErr", "dlqErr", "queueErr", "consumeErr"}

AddTenantWithAMQP(k, id) ==
  /\ CanLock /\ call[k].phase = "idle"
  /\ \E out \in AddOutcomes :
       /\ mu' = k
       /\ declared' = CASE out = "channelErr" -> declared
                        [] out = "dlqErr"     -> declared
                        [] out = "queueErr"   -> declared \cup {DlqName(id)}
                        [] OTHER -> declared \cup {DlqName(id), QueueName(id)}
       /\ IF out = "ok"
            THEN /\ Allocated # CIds
                 /\ LET c == CHOOSE x \in CIds \ Allocated :
                               \A y \in CIds \ Allocated : x <= y
                    IN /\ tc' = [tc EXCEPT ![c] =
                                  [ID |-> id, StopCh |-> "open",
                                   TaskCh |-> <<>>,
                                   workerStopChans |-> FreshChans(1),
                                   amqpChannel |-> "open",
                                   amqpDeliveryCh |-> "open"]]
                       /\ worker' = [worker EXCEPT ![c] = SpawnWorkers(1)]
                       /\ workerGauge' = [workerGauge EXCEPT ![id] = 1]
                       /\ consumers' = [consumers EXCEPT ![id] = c]
                       /\ consumeLoop' = [consumeLoop EXCEPT ![c] =
                                            [pc |-> "recv", msg |-> 0]]
            ELSE UNCHANGED <<tc, worker, workerGauge, consumers, consumeLoop>>
       /\ call' = [call EXCEPT ![k] =
                     [op |-> "add", id |-> id, n |-> 0, phase |-> "ret",
                      pre |-> consumers[id], pend |-> <<>>,
                      ret |-> IF out = "ok" THEN "nil" ELSE "err"]]
  /\ UNCHANGED <<queue, msgs, pvars, svars>>


(* ----------------------- TenantConsumer.stopWorkers ------------------- *)
\* stopWorkers up to its wg.Wait(): the gauge is zeroed and every per-worker
\* stop channel is closed; closing an already closed one panics.
StopWorkersPanics(c) == AnyClosed(tc[c].workerStopChans)

\* a stopWorkers that does not wait for the workers
WaitDone_nowait(c) == TRUE

\* stopWorkers: tc.wg.Wait() returns once every worker goroutine has exited
WaitDone(c) == wg(c) = 0

(* ----------------------- TenantManager.RemoveTenantWithAMQP ----------- *)
\* Handler.DeleteTenant -> RemoveTenantWithAMQP, up to stopWorkers' wg.Wait()
RemoveTenantWithAMQP(k, id) ==
  /\ CanLock /\ call[k].phase = "idle"
  /\ mu' = k
  /\ LET c  == consumers[id]
         cl == [op |-> "remove", id |-> id, n |-> 0, phase |-> "ret",
                pre |-> c, pend |-> IF c = 0 THEN <<>> ELSE tc[c].TaskCh,
                ret |-> "nil"]
     IN IF c = 0
          THEN /\ call' = [call EXCEPT ![k] = cl]
               /\ UNCHANGED <<tc, workerGauge>>
          ELSE IF tc[c].StopCh = "closed"
            THEN \* close(c.StopCh) of a closed channel
                 /\ call' = [call EXCEPT ![k] = [cl EXCEPT !.ret = "panic"]]
                 /\ UNCHANGED <<tc, workerGauge>>
            ELSE /\ workerGauge' = [workerGauge EXCEPT ![tc[c].ID] = 0]
                 /\ IF StopWorkersPanics(c)
                      THEN /\ tc' = [tc EXCEPT ![c].StopCh = "closed"]
                           /\ call' = [call EXCEPT ![k] =
                                         [cl EXCEPT !.ret = "panic"]]
                      ELSE /\ tc' = [tc EXCEPT ![c].StopCh = "closed",
                                       ![c].workerStopChans = AllClosed(@)]
                           /\ call' = [call EXCEPT ![k] =
                                         [cl EXCEPT !.phase = "wait"]]
  /\ UNCHANGED <<consumers, worker, consumeLoop, declared, queue, msgs, pvars, svars>>

\* a queue deletion that cancels the consumers of every queue
ConsumesFrom_any(x, id) == TRUE

\* consumer x consumes from tenant_<id>_queue (ch.Consume(queueName, ..))
ConsumesFrom(x, id) == tc[x].ID = id

\* wg.Wait() has returned: Cancel, QueueDelete, Close, delete(tm.consumers, id).
\* Deleting the queue ends the delivery stream of every consumer on it.
RemoveFinish(k) ==
  /\ call[k].phase = "wait" /\ call[k].op = "remove"
  /\ LET id == call[k].id
         c  == consumers[id]
     IN /\ WaitDone(c)
        /\ tc' = [x \in CIds |->
                    IF x = c
                      THEN [tc[x] EXCEPT !.amqpDeliveryCh = "closed",
                                         !.amqpChannel = "closed"]
                    ELSE IF ConsumesFrom(x, id)
                      THEN [tc[x] EXCEPT !.amqpDeliveryCh = "closed"]
                    ELSE tc[x]]
        /\ declared' = declared \ {QueueName(id)}
        /\ queue' = [queue EXCEPT ![id] = <<>>]
        /\ consumers' = [consumers EXCEPT ![id] = 0]
        /\ call' = [call EXCEPT ![k].phase = "ret"]
  /\ UNCHANGED <<mu, worker, consumeLoop, msgs, workerGauge, pvars, svars>>

(* ----------------------- TenantManager.UpdateConcurrency -------------- *)
\* Handler.UpdateConcurrency -> UpdateConcurrency -> updateWorkers, up to
\* stopWorkers' wg.Wait().  c.Workers = workers is a store nothing reads back
\* (the pool is sized from the argument); the argument is kept in call[k].n.
UpdateConcurrency(k, id, n) ==
  /\ CanLock /\ call[k].phase = "idle"
  /\ mu' = k
  /\ LET c  == consumers[id]
         cl == [op |-> "update", id |-> id, n |-> n, phase |-> "ret",
                pre |-> c, pend |-> <<>>, ret |-> "nil"]
     IN IF c = 0
          THEN /\ call' = [call EXCEPT ![k] = cl]
               /\ UNCHANGED <<tc, workerGauge>>
          ELSE IF n = Len(tc[c].workerStopChans)
            THEN /\ tc' = tc
                 /\ workerGauge' = [workerGauge EXCEPT ![tc[c].ID] = n]
                 /\ call' = [call EXCEPT ![k] = cl]
            ELSE /\ workerGauge' = [workerGauge EXCEPT ![tc[c].ID] = 0]
                 /\ IF StopWorkersPanics(c)
                      THEN /\ tc' = tc
                           /\ call' = [call EXCEPT ![k] =
                                         [cl EXCEPT !.ret = "panic"]]
                      ELSE /\ tc' = [tc EXCEPT
                                       ![c].workerStopChans = AllClosed(@)]
                           /\ call' = [call EXCEPT ![k] =
                                         [cl EXCEPT !.phase = "wait"]]
  /\ UNCHANGED <<consumers, worker, consumeLoop, declared, queue, msgs, pvars, svars>>

\* wg.Wait() has returned: startWorkers(newN); make([]chan struct{}, n)
\* panics for n < 0, after the gauge was set and before anything is assigned
UpdateFinish(k) ==
  /\ call[k].phase = "wait" /\ call[k].op = "update"
  /\ LET c == consumers[call[k].id]
         n == call[k].n
     IN /\ WaitDone(c)
        /\ workerGauge' = [workerGauge EXCEPT ![tc[c].ID] = n]
        /\ IF n < 0
             THEN /\ call' = [call EXCEPT ![k].phase = "ret", ![k].ret = "panic"]
                  /\ UNCHANGED <<tc, worker>>
             ELSE /\ tc' = [tc EXCEPT ![c].workerStopChans = FreshChans(n)]
                  /\ worker' = [worker EXCEPT ![c] = SpawnWorkers(n)]
                  /\ call' = [call EXCEPT ![k].phase = "ret"]
  /\ UNCHANGED <<mu, consumers, consumeLoop, declared, queue, msgs, pvars, svars>>

\* the manager function returns (or unwinds): the deferred tm.mu.Unlock()
\* runs and the handler writes its response
Return(k) ==
  /\ call[k].phase = "ret"
  /\ mu' = 0
  /\ call' = [call EXCEPT ![k] = Idle]
  /\ UNCHANGED <<consumers, tc, worker, consumeLoop, declared, queue, msgs,
                 workerGauge, pvars, svars>>

\* HTTP status the handler of api writes for a finished manager call
\* (0: the request goroutine panicked, no response is written)
HandlerStatus(cl) ==
  CASE cl.ret = "panic"  -> 0
    [] cl.op = "add"     -> IF cl.ret = "nil" THEN 201 ELSE 500
    [] cl.op = "remove"  -> 204
    [] cl.op = "update"  -> 200
    [] OTHER             -> 0

(* ------------------------------ broker -------------------------------- *)
\* a producer publishes the next message to tenant_<id>_queue, as long as
\* fewer than max messages have been published
PublishN(id, max) ==
  /\ NotReturning
  /\ QueueName(id) \in declared
  /\ Cardinality(Published) < max
  /\ LET m == CHOOSE x \in Msgs \ Published : \A y \in Msgs \ Published : x <= y
     IN /\ msgs' = [msgs EXCEPT ![m].q = id]
        /\ queue' = [queue EXCEPT ![id] = Append(@, m)]
  /\ UNCHANGED <<mu, consumers, tc, worker, consumeLoop, call, declared,
                 workerGauge, pvars, svars>>

Publish(id) == PublishN(id, MaxMsgs)

\* a producer that publishes one message more: enough to fill TaskCh while
\* the dispatcher holds a further delivery
PublishBurst(id) == PublishN(id, MaxMsgs + 1)

(* ----------------------- TenantConsumer.consumeLoop ------------------- *)
\* outer select: stop signal, or the next delivery of the stream
ConsumeRecv(c) ==
  /\ NotReturning
  /\ consumeLoop[c].pc = "recv"
  /\ \/ /\ tc[c].StopCh = "closed" \/ tc[c].amqpDeliveryCh = "closed"
        /\ consumeLoop' = [consumeLoop EXCEPT ![c] = NoLoop]
        /\ UNCHANGED <<queue, msgs>>
     \/ /\ tc[c].amqpDeliveryCh = "open"
        /\ queue[tc[c].ID] # <<>>
        /\ LET m == Head(queue[tc[c].ID])
           IN /\ queue' = [queue EXCEPT ![tc[c].ID] = Tail(@)]
              /\ msgs' = [msgs EXCEPT ![m].owner = c]
              /\ consumeLoop' = [consumeLoop EXCEPT ![c] =
                                   [pc |-> "send", msg |-> m]]
  /\ UNCHANGED <<mu, consumers, tc, worker, call, declared, workerGauge, pvars, svars>>

\* an inner select without the stop case
SendCanStop_never(c) == FALSE

\* inner select, case <-tc.StopCh
SendCanStop(c) == tc[c].StopCh = "closed"

\* inner select: send the delivery to TaskCh, or stop
ConsumeSend(c) ==
  /\ NotReturning
  /\ consumeLoop[c].pc = "send"
  /\ \/ /\ Len(tc[c].TaskCh) < TaskChCap
        /\ tc' = [tc EXCEPT ![c].TaskCh = Append(@, consumeLoop[c].msg)]
        /\ consumeLoop' = [consumeLoop EXCEPT ![c] = [pc |-> "recv", msg |-> 0]]
     \/ /\ SendCanStop(c)
        /\ consumeLoop' = [consumeLoop EXCEPT ![c] = NoLoop]
        /\ UNCHANGED tc
  /\ UNCHANGED <<mu, consumers, worker, call, declared, queue, msgs,
                 workerGauge, pvars, svars>>

(* ----------------------- worker goroutine of startWorkers ------------- *)
\* a worker whose select has no stop case
StopRequested_never(c, i) == FALSE

\* the select of the worker loop, cases <-stopCh and <-tc.StopCh
StopRequested(c, i) ==
  tc[c].workerStopChans[i] = "closed" \/ tc[c].StopCh = "closed"

\* the select of the worker loop: own stop channel, tc.StopCh, or a task
WorkerSelect(c, i) ==
  /\ NotReturning
  /\ worker[c][i].pc = "select"
  /\ \/ /\ StopRequested(c, i)
        /\ worker' = [worker EXCEPT ![c][i] = NoWorker]
        /\ UNCHANGED tc
     \/ /\ tc[c].TaskCh # <<>>
        /\ worker' = [worker EXCEPT ![c][i] =
                        [pc |-> "insert", msg |-> Head(tc[c].TaskCh),
                         attempt |-> 1]]
        /\ tc' = [tc EXCEPT ![c].TaskCh = Tail(@)]
  /\ UNCHANGED <<mu, consumers, consumeLoop, call, declared, queue, msgs,
                 workerGauge, pvars, svars>>

\* a retry loop that gives up one attempt early
RouteToDLQ_early(attempt) == attempt >= maxRetry - 1

\* the last failed attempt is the one routed to the DLQ
RouteToDLQ(attempt) == attempt = maxRetry

\* a retry loop that goes round once more after the DLQ routing
LoopAgain_extra(attempt) == attempt <= maxRetry + 1

\* the retry loop goes round again after the sleep
LoopAgain(attempt) == attempt <= maxRetry

\* a sendToDLQ that publishes and leaves the delivery unsettled
sendToDLQ_noSettle(r, publishOk) ==
  IF publishOk THEN [r EXCEPT !.dlq = @ + 1] ELSE r

\* TenantConsumer.sendToDLQ on the record r of a delivery: Publish msg.Body to
\* tenant_<ID>_dlq, then Ack if err == nil, else Nack(false, true).  (A
\* consumer built by AddTenantWithAMQP always has an amqpChannel.)
sendToDLQ(r, publishOk) ==
  IF publishOk THEN [r EXCEPT !.dlq = @ + 1, !.acks = @ + 1]
               ELSE [r EXCEPT !.nacks = @ + 1]

\* an insert path that stores the row and does not ack
AckInserted_noAck(r) == [r EXCEPT !.rows = @ + 1]

\* a manager whose DB was never set
DBSet_nil == FALSE

\* Run sets tm.DB = dbpool right after NewTenantManager, before any handler
\* is registered: every consumer's tc.manager.DB is non-nil
DBSet == TRUE

\* err == nil after "if tc.manager != nil && tc.manager.DB != nil { err =
\* insertMessage }": the row is stored when the insert ran; msg.Ack(false);
\* break
AckInserted(r) ==
  IF DBSet THEN [r EXCEPT !.rows = @ + 1, !.acks = @ + 1]
           ELSE [r EXCEPT !.acks = @ + 1]

\* one attempt of the retry loop with the given results of the store and of
\* the broker: insertMessage, then Ack on success, or sendToDLQ on the last
\* failure
WorkerAttempt(c, i, insertOk, publishOk) ==
  /\ NotReturning
  /\ worker[c][i].pc = "insert"
  /\ LET m == worker[c][i].msg
         a == worker[c][i].attempt
         r == [msgs[m] EXCEPT !.att = @ + 1]
     IN IF insertOk
          THEN /\ publishOk
               /\ msgs' = [msgs EXCEPT ![m] = AckInserted(r)]
               /\ worker' = [worker EXCEPT ![c][i] =
                               [pc |-> "select", msg |-> 0, attempt |-> 0]]
          ELSE /\ IF RouteToDLQ(a)
                    THEN msgs' = [msgs EXCEPT ![m] = sendToDLQ(r, publishOk)]
                    ELSE /\ publishOk
                         /\ msgs' = [msgs EXCEPT ![m] = r]
               /\ worker' = [worker EXCEPT ![c][i].pc = "sleep"]
  /\ UNCHANGED <<mu, consumers, tc, consumeLoop, call, declared, queue,
                 workerGauge, pvars, svars>>

\* the store and the broker may fail or succeed at every attempt
WorkerInsert(c, i) ==
  \E insertOk \in BOOLEAN, publishOk \in BOOLEAN :
     WorkerAttempt(c, i, insertOk, publishOk)

\* time.Sleep(attempt seconds), attempt++, loop test
WorkerSleep(c, i) ==
  /\ NotReturning
  /\ worker[c][i].pc = "sleep"
  /\ LET a == worker[c][i].attempt + 1
     IN worker' = [worker EXCEPT ![c][i] =
                     IF LoopAgain(a)
                       THEN [@ EXCEPT !.pc = "insert", !.attempt = a]
                       ELSE [pc |-> "select", msg |-> 0, attempt |-> 0]]
  /\ UNCHANGED <<mu, consumers, tc, consumeLoop, call, declared, queue, msgs,
                 workerGauge, pvars, svars>>

(* ------------------------------ read side ---------------------------- *)
RowIds  == 1..MaxRows
Rows    == [id : RowIds, created_at : 1..MaxTime]
\* stores of rows with unique ids
Stores  == {{[id |-> i, created_at |-> f[i]] : i \in S} :
              S \in SUBSET RowIds, f \in [RowIds -> 1..MaxTime]}

\* (created_at, id) of a is before that of b
Before(a, b) == \/ a.created_at < b.created_at
                \/ a.created_at = b.created_at /\ a.id < b.id

\* ORDER BY created_at, id (ASC, or DESC when desc)
RECURSIVE OrderBy(_, _)
OrderBy(S, desc) ==
  IF S = {} THEN <<>>
  ELSE LET first == CHOOSE r \in S : \A q \in S \ {r} :
                      IF desc THEN Before(q, r) ELSE Before(r, q)
       IN <<first>> \o OrderBy(S \ {first}, desc)

\* LIMIT k
Limit(rows, k) == SubSeq(rows, 1, IF Len(rows) < k THEN Len(rows) ELSE k)

\* a cursor predicate without the tie-break on id
AfterCursor_noTie(r, cur) ==
  \E a \in {x \in store : x.id = cur} : r.created_at > a.created_at

\* a cursor predicate that admits the cursor row itself
AfterCursor_inclusive(r, cur) ==
  \E a \in {x \in store : x.id = cur} :
     \/ r.created_at > a.created_at
     \/ r.created_at = a.created_at /\ r.id >= cur

\* a cursor predicate that filters nothing when the anchor row is missing
AfterCursor_noAnchor(r, cur) ==
  \/ \A x \in store : x.id # cur
  \/ \E a \in {x \in store : x.id = cur} :
        \/ r.created_at > a.created_at
        \/ r.created_at = a.created_at /\ r.id > cur

\* GetMessages: WHERE created_at > (SELECT created_at .. WHERE id = $1)
\*   OR (created_at = (SELECT ..) AND id > $1); no anchor row: NULL, no row
AfterCursor(r, cur) ==
  \E a \in {x \in store : x.id = cur} :
     \/ r.created_at > a.created_at
     \/ r.created_at = a.created_at /\ r.id > cur

\* an end-of-stream test that also fires on a full page
EndOfStream_le(n, lim) == n <= lim

\* GetMessages: if len(msgs) < limit { nextCursor = "" }
EndOfStream(n, lim) == n < lim

\* TenantManager.GetMessages(cursor, limit): LIMIT limit+1 rows are fetched,
\* the first limit of them are appended, nextCursor is the last appended id
GetMessages(cur, lim) ==
  LET rows == Limit(OrderBy(IF cur = 0 THEN store
                            ELSE {r \in store : AfterCursor(r, cur)}, FALSE),
                    lim + 1)
      out  == Limit(rows, lim)
  IN [msgs |-> [j \in 1..Len(out) |-> out[j].id],
      next |-> IF EndOfStream(Len(out), lim) \/ Len(out) = 0
                 THEN 0 ELSE out[Len(out)].id]

\* ListMessages: WHERE (created_at, id) < (SELECT created_at, id .. WHERE id = $1)
BeforeCursor(r, cur) == \E a \in {x \in store : x.id = cur} : Before(r, a)

\* MessageHandler.ListMessages: ORDER BY created_at DESC, id DESC LIMIT limit;
\* nextCursor = lastID when len(messages) > 0 && len(messages) == limit
ListMessages(cur, lim) ==
  LET out == Limit(OrderBy(IF cur = 0 THEN store
                           ELSE {r \in store : BeforeCursor(r, cur)}, TRUE),
                   lim)
  IN [msgs |-> [j \in 1..Len(out) |-> out[j].id],
      next |-> IF Len(out) > 0 /\ Len(out) = lim THEN out[Len(out)].id ELSE 0]

InitPage ==
  /\ MInit /\ SIdle
  /\ store \in Stores
  /\ partitions = {}
  /\ tenantRows = {}
  /\ limit \in 1..MaxLimit
  /\ start \in 0..MaxRows
  /\ cursor = 0
  /\ page = <<>>
  /\ nextCursor = 0
  /\ seen = <<>>
  /\ calls = 0
  /\ reader \in {"get", "list"}

\* the client has received an empty next_cursor
Finished == calls > 0 /\ nextCursor = 0

\* one page request of a client that follows next_cursor
PageRequest(r) ==
  /\ cursor' = (IF calls = 0 THEN start ELSE nextCursor)
  /\ page' = r.msgs
  /\ nextCursor' = r.next
  /\ seen' = seen \o r.msgs
  /\ calls' = calls + 1
  /\ UNCHANGED <<store, partitions, tenantRows, limit, start, reader, mvars,
                 svars>>

GetMessagesCall ==
  /\ reader = "get" /\ ~Finished /\ calls < MaxCalls
  /\ PageRequest(GetMessages(IF calls = 0 THEN start ELSE nextCursor, limit))

ListMessagesCall ==
  /\ reader = "list" /\ ~Finished /\ calls < MaxCalls
  /\ PageRequest(ListMessages(IF calls = 0 THEN start ELSE nextCursor, limit))

NextPage == GetMessagesCall \/ ListMessagesCall

SpecPage == InitPage /\ [][NextPage]_vars

(* ----------------------- inserts between page requests ----------------- *)
\* insertMessage stores a row: uuid.New() is an id no row has, created_at is
\* the clock of the inserting transaction (rows can become visible out of
\* created_at order)
InsertMessage ==
  /\ \E i \in RowIds \ {r.id : r \in store}, t \in 1..MaxTime :
       store' = store \cup {[id |-> i, created_at |-> t]}
  /\ UNCHANGED <<partitions, tenantRows, limit, start, cursor, page,
                 nextCursor, seen, calls, reader, mvars, svars>>

\* a GetMessages traversal from the empty cursor
InitInsert ==
  /\ MInit /\ SIdle
  /\ store \in Stores
  /\ partitions = {}
  /\ tenantRows = {}
  /\ limit \in 1..MaxLimit
  /\ start = 0
  /\ cursor = 0
  /\ page = <<>>
  /\ nextCursor = 0
  /\ seen = <<>>
  /\ calls = 0
  /\ reader = "get"

NextInsert == GetMessagesCall \/ InsertMessage

SpecInsert == InitInsert /\ [][NextInsert]_vars

(* ------------------------------ Next ---------------------------------- *)
Next ==
  \/ \E k \in Callers, id \in Ids : AddTenantWithAMQP(k, id)
  \/ \E k \in Callers, id \in Ids : RemoveTenantWithAMQP(k, id)
  \/ \E k \in Callers : RemoveFinish(k)
  \/ \E k \in Callers, id \in Ids, n \in NVals : UpdateConcurrency(k, id, n)
  \/ \E k \in Callers : UpdateFinish(k)
  \/ \E k \in Callers : Return(k)
  \/ \E id \in Ids : Publish(id)
  \/ \E c \in CIds : ConsumeRecv(c)
  \/ \E c \in CIds : ConsumeSend(c)
  \/ \E c \in CIds, i \in Slots : WorkerSelect(c, i)
  \/ \E c \in CIds, i \in Slots : WorkerInsert(c, i)
  \/ \E c \in CIds, i \in Slots : WorkerSleep(c, i)

Spec == Init /\ [][Next]_vars

(* ----------------------- two tenants, create and delete ---------------- *)
\* requests for both tenant ids, without resizes
NextTenants ==
  \/ \E k \in Callers, id \in Tenants : AddTenantWithAMQP(k, id)
  \/ \E k \in Callers, id \in Tenants : RemoveTenantWithAMQP(k, id)
  \/ \E k \in Callers : RemoveFinish(k)
  \/ \E k \in Callers : Return(k)
  \/ \E id \in Tenants : Publish(id)
  \/ \E c \in CIds : ConsumeRecv(c)
  \/ \E c \in CIds : ConsumeSend(c)
  \/ \E c \in CIds, i \in Slots : WorkerSelect(c, i)
  \/ \E c \in CIds, i \in Slots : WorkerInsert(c, i)
  \/ \E c \in CIds, i \in Slots : WorkerSleep(c, i)

SpecTenants == Init /\ [][NextTenants]_vars

(* ----------------------- scheduling ------------------------------------ *)
\* the steps of the dispatcher goroutine and of a worker goroutine
Dispatcher(c)    == ConsumeRecv(c) \/ ConsumeSend(c)
WorkerStep(c, i) == WorkerSelect(c, i) \/ WorkerInsert(c, i) \/ WorkerSleep(c, i)

\* Every goroutine that can run infinitely often does run (strong, since the
\* return of a manager call is taken as one step with its last statement),
\* and a manager call that has reached its return returns.
Fairness ==
  /\ \A k \in Callers : WF_vars(Return(k))
  /\ \A c \in CIds : SF_vars(Dispatcher(c))
  /\ \A c \in CIds, i \in Slots : SF_vars(WorkerStep(c, i))

(* ----------------------- a tenant that stays registered ---------------- *)
\* one attempt against a store that accepts the insert
WorkerStore(c, i) == WorkerAttempt(c, i, TRUE, TRUE)

\* tenants are created and never resized or deleted; the store accepts inserts
NextLive ==
  \/ \E k \in Callers, id \in Tenants : AddTenantWithAMQP(k, id)
  \/ \E k \in Callers : Return(k)
  \/ \E id \in Tenants : Publish(id)
  \/ \E c \in CIds : ConsumeRecv(c)
  \/ \E c \in CIds : ConsumeSend(c)
  \/ \E c \in CIds, i \in Slots : WorkerSelect(c, i)
  \/ \E c \in CIds, i \in Slots : WorkerStore(c, i)

SpecLive == Init /\ [][NextLive]_vars /\ Fairness

(* ----------------------- the broker goes away --------------------------- *)
\* the broker channel of consumer c is lost: the library closes the delivery
\* stream, and consumeLoop reads ok == false from it
BrokerGone(c) ==
  /\ NotReturning
  /\ tc[c].ID # NoTenant
  /\ tc[c].amqpDeliveryCh = "open"
  /\ tc' = [tc EXCEPT ![c].amqpDeliveryCh = "closed",
                      ![c].amqpChannel = "closed"]
  /\ UNCHANGED <<mu, consumers, worker, consumeLoop, call, declared, queue,
                 msgs, workerGauge, pvars, svars>>

\* tenants are created, none is deleted or resized, and channels may be lost
NextDrain ==
  \/ \E k \in Callers, id \in Ids : AddTenantWithAMQP(k, id)
  \/ \E k \in Callers : Return(k)
  \/ \E id \in Ids : Publish(id)
  \/ \E c \in CIds : BrokerGone(c)
  \/ \E c \in CIds : ConsumeRecv(c)
  \/ \E c \in CIds : ConsumeSend(c)
  \/ \E c \in CIds, i \in Slots : WorkerSelect(c, i)
  \/ \E c \in CIds, i \in Slots : WorkerInsert(c, i)
  \/ \E c \in CIds, i \in Slots : WorkerSleep(c, i)

SpecDrain == Init /\ [][NextDrain]_vars /\ Fairness

(* ----------------------- teardown, statement by statement ------------- *)
\* a teardown that unregisters the consumer before it stops it
RemoveSteps_deleteFirst ==
  <<"delete", "StopCh", "stopWorkers", "Wait", "Cancel", "QueueDelete",
    "Close">>

\* the statements of RemoveTenantWithAMQP after the registry lookup, in
\* program order: close(c.StopCh); c.stopWorkers() (close the stop channels,
\* then wg.Wait()); amqpChannel.Cancel; QueueDelete; amqpChannel.Close;
\* delete(tm.consumers, id)
RemoveSteps ==
  <<"StopCh", "stopWorkers", "Wait", "Cancel", "QueueDelete", "Close",
    "delete">>

\* tm.mu.Lock(); c, ok := tm.consumers[id]; call[k].n counts the statements
RemoveBegin(k, id) ==
  /\ CanLock /\ call[k].phase = "idle"
  /\ mu' = k
  /\ LET c == consumers[id]
     IN call' = [call EXCEPT ![k] =
                   [op |-> "remove", id |-> id, n |-> IF c = 0 THEN 0 ELSE 1,
                    phase |-> IF c = 0 THEN "ret" ELSE "step",
                    pre |-> c, pend |-> <<>>, ret |-> "nil"]]
  /\ UNCHANGED <<consumers, tc, worker, consumeLoop, declared, queue, msgs,
                 workerGauge, pvars, svars>>

\* the next statement of the teardown of consumer call[k].pre
RemoveStep(k) ==
  /\ call[k].op = "remove" /\ call[k].phase = "step"
  /\ LET s  == RemoveSteps[call[k].n]
         c  == call[k].pre
         id == call[k].id
         panics == \/ s = "StopCh" /\ tc[c].StopCh = "closed"
                   \/ s = "stopWorkers" /\ StopWorkersPanics(c)
     IN /\ s = "Wait" => WaitDone(c)
        /\ tc' = CASE panics -> tc
                   [] s = "StopCh" -> [tc EXCEPT ![c].StopCh = "closed"]
                   [] s = "stopWorkers" ->
                        [tc EXCEPT ![c].workerStopChans = AllClosed(@)]
                   [] s = "Cancel" ->
                        [tc EXCEPT ![c].amqpDeliveryCh = "closed"]
                   [] s = "QueueDelete" ->
                        [x \in CIds |->
                           IF ConsumesFrom(x, id)
                             THEN [tc[x] EXCEPT !.amqpDeliveryCh = "closed"]
                             ELSE tc[x]]
                   [] s = "Close" -> [tc EXCEPT ![c].amqpChannel = "closed"]
                   [] OTHER -> tc
        /\ workerGauge' = IF s = "stopWorkers"
                            THEN [workerGauge EXCEPT ![tc[c].ID] = 0]
                            ELSE workerGauge
        /\ declared' = IF s = "QueueDelete" THEN declared \ {QueueName(id)}
                                            ELSE declared
        /\ queue' = IF s = "QueueDelete" THEN [queue EXCEPT ![id] = <<>>]
                                         ELSE queue
        /\ consumers' = IF s = "delete" THEN [consumers EXCEPT ![id] = 0]
                                        ELSE consumers
        /\ call' = [call EXCEPT ![k] =
                      IF panics
                        THEN [@ EXCEPT !.phase = "ret", !.ret = "panic"]
                      ELSE IF call[k].n = Len(RemoveSteps)
                        THEN [@ EXCEPT !.phase = "ret"]
                      ELSE [@ EXCEPT !.n = @ + 1]]
  /\ UNCHANGED <<mu, worker, consumeLoop, msgs, pvars, svars>>

\* tenants are created and deleted, the delete one statement at a time
NextTeardown ==
  \/ \E k \in Callers, id \in Tenants : AddTenantWithAMQP(k, id)
  \/ \E k \in Callers, id \in Tenants : RemoveBegin(k, id)
  \/ \E k \in Callers : RemoveStep(k)
  \/ \E k \in Callers : Return(k)
  \/ \E id \in Tenants : Publish(id)
  \/ \E c \in CIds : ConsumeRecv(c)
  \/ \E c \in CIds : ConsumeSend(c)
  \/ \E c \in CIds, i \in Slots : WorkerSelect(c, i)
  \/ \E c \in CIds, i \in Slots : WorkerInsert(c, i)
  \/ \E c \in CIds, i \in Slots : WorkerSleep(c, i)

SpecTeardown == Init /\ [][NextTeardown]_vars

(* ----------------------- service layer: TenantService ----------------- *)
\* the one broker channel of the service (repository.RabbitMQ.Channel)
RabbitChannel == "rabbit.Channel"

\* worker.NewWorkerPool(size): size goroutines ranging over taskChan
NewWorkerPool(size) == [NoPool EXCEPT !.workerCount = size, !.idle = size]

\* goroutines of the pool of tenant t that range over its task channel
PoolLive(t) == pool[t].idle + Cardinality(pool[t].running)

CreateOutcomes == {"ok", "partitionErr", "queueErr", "insertErr"}

\* TenantService.CreateTenant for a fresh uuid: createPartition, QueueDeclare
\* on the shared channel, NewWorkerPool(3), go consumeMessages, AddTenant,
\* INSERT INTO tenants; an error returns at once and undoes nothing
SvcCreateTenant(id) ==
  /\ proc = "running"
  /\ pool[id].ctx = "none" /\ id \notin partitions
  /\ \E out \in CreateOutcomes :
       /\ partitions' = IF out = "partitionErr" THEN partitions
                                                ELSE partitions \cup {id}
       /\ declared' = IF out \in {"partitionErr", "queueErr"}
                        THEN declared ELSE declared \cup {QueueName(id)}
       /\ IF out \in {"ok", "insertErr"}
            THEN /\ pool' = [pool EXCEPT ![id] =
                              [NewWorkerPool(DefaultWorkers) EXCEPT
                                 !.ctx = "live",
                                 !.consumer = [pc |-> "consume", msg |-> 0]]]
                 /\ activeTenants' = [activeTenants EXCEPT ![id] =
                        [exists |-> TRUE, Workers |-> DefaultWorkers]]
            ELSE UNCHANGED <<pool, activeTenants>>
       /\ tenantRows' = IF out = "ok" THEN tenantRows \cup {id} ELSE tenantRows
  /\ UNCHANGED <<mu, consumers, tc, worker, consumeLoop, call, queue, msgs,
                 workerGauge, store, limit, start, cursor, page, nextCursor,
                 seen, calls, reader, proc>>

\* TenantService.DeleteTenant: RemoveTenant (CancelFunc, delete from the
\* map), QueueDelete (its error is only logged; the broker cancels the
\* consumers of the queue), DELETE FROM tenants
SvcDeleteTenant(id) ==
  /\ proc = "running"
  /\ \E dbOk \in BOOLEAN :
       tenantRows' = IF dbOk THEN tenantRows \ {id} ELSE tenantRows
  /\ pool' = [pool EXCEPT ![id] =
                [@ EXCEPT !.ctx = IF activeTenants[id].exists THEN "done" ELSE @,
                          !.msgsCh = IF @ = "open" THEN "closed" ELSE @]]
  /\ activeTenants' = [activeTenants EXCEPT ![id] = NoTenantContext]
  /\ declared' = declared \ {QueueName(id)}
  /\ queue' = [queue EXCEPT ![id] = <<>>]
  /\ UNCHANGED <<mu, consumers, tc, worker, consumeLoop, call, msgs,
                 workerGauge, store, partitions, limit, start, cursor, page,
                 nextCursor, seen, calls, reader, proc>>

\* TenantService.UpdateConcurrency: tenantManager.UpdateConfig and nothing
\* else; it returns nil
SvcUpdateConcurrency(id, n) ==
  /\ proc = "running"
  /\ activeTenants' = IF activeTenants[id].exists
                        THEN [activeTenants EXCEPT ![id].Workers = n]
                        ELSE activeTenants
  /\ UNCHANGED <<mvars, pvars, pool, proc>>

\* consumeMessages up to its loop: Consume on the shared channel; on success
\* go pool.Run(ctx), on error log and return
SvcConsume(t) ==
  /\ proc = "running"
  /\ pool[t].consumer.pc = "consume"
  /\ pool' = [pool EXCEPT ![t] =
                IF QueueName(t) \in declared
                  THEN [@ EXCEPT !.consumer.pc = "select", !.run = "waiting",
                                 !.msgsCh = "open", !.channel = RabbitChannel]
                  ELSE [@ EXCEPT !.consumer.pc = "done"]]
  /\ UNCHANGED <<mvars, pvars, activeTenants, proc>>

\* the select of consumeMessages: ctx.Done(), or the next delivery (ok ==
\* false once the stream is closed)
SvcSelect(t) ==
  /\ proc = "running"
  /\ pool[t].consumer.pc = "select"
  /\ \/ /\ pool[t].ctx = "done" \/ pool[t].msgsCh = "closed"
        /\ pool' = [pool EXCEPT ![t].consumer.pc = "done"]
        /\ UNCHANGED queue
     \/ /\ pool[t].msgsCh = "open"
        /\ queue[t] # <<>>
        /\ pool' = [pool EXCEPT ![t].consumer =
                                  [pc |-> "submit", msg |-> Head(queue[t])]]
        /\ queue' = [queue EXCEPT ![t] = Tail(@)]
  /\ UNCHANGED <<mu, consumers, tc, worker, consumeLoop, call, declared, msgs,
                 workerGauge, pvars, activeTenants, proc>>

\* pool.Submit(task): p.taskChan <- task; a send on the closed channel
\* panics in the consumer goroutine, which ends the process
SvcSubmit(t) ==
  /\ proc = "running"
  /\ pool[t].consumer.pc = "submit"
  /\ IF pool[t].closed
       THEN /\ proc' = "crashed"
            /\ pool' = [pool EXCEPT ![t].consumer.pc = "panic"]
       ELSE /\ Len(pool[t].taskChan) < taskChanCap
            /\ pool' = [pool EXCEPT
                          ![t].taskChan = Append(@, pool[t].consumer.msg),
                          ![t].consumer = [pc |-> "select", msg |-> 0]]
            /\ proc' = proc
  /\ UNCHANGED <<mvars, pvars, activeTenants>>

\* WorkerPool.Run: <-ctx.Done(); close(p.taskChan)
SvcRun(t) ==
  /\ proc = "running"
  /\ pool[t].run = "waiting" /\ pool[t].ctx = "done"
  /\ pool' = [pool EXCEPT ![t].run = "done", ![t].closed = TRUE]
  /\ UNCHANGED <<mvars, pvars, activeTenants, proc>>

\* WorkerPool.worker: for task := range p.taskChan; the loop ends when the
\* channel is closed and drained
SvcWorkerRecv(t) ==
  /\ proc = "running"
  /\ pool[t].idle > 0
  /\ \/ /\ pool[t].taskChan # <<>>
        /\ Head(pool[t].taskChan) \in Msgs
        /\ pool' = [pool EXCEPT
                      ![t].idle = @ - 1,
                      ![t].running = @ \cup {Head(pool[t].taskChan)},
                      ![t].taskChan = Tail(@)]
     \/ /\ pool[t].taskChan = <<>> /\ pool[t].closed
        /\ pool' = [pool EXCEPT ![t].idle = @ - 1, ![t].exited = @ + 1]
  /\ UNCHANGED <<mvars, pvars, activeTenants, proc>>

\* d.Nack(false, true): the broker puts the message back on its queue
NackRequeue(r) == [r EXCEPT !.att = @ + 1, !.nacks = @ + 1]

\* the task consumeMessages submits: processMessage, then d.Ack(false), or
\* d.Nack(false, true) when the insert failed
SvcWorkerTask(t, m, insertOk) ==
  /\ proc = "running"
  /\ m \in pool[t].running
  /\    IF insertOk
          THEN /\ msgs' = [msgs EXCEPT ![m] =
                            [@ EXCEPT !.att = @ + 1, !.rows = @ + 1,
                                      !.acks = @ + 1]]
               /\ UNCHANGED queue
          ELSE /\ msgs[m].nacks < MaxNacks
               /\ msgs' = [msgs EXCEPT ![m] = NackRequeue(@)]
               /\ queue' = IF QueueName(t) \in declared
                             THEN [queue EXCEPT ![t] = Append(@, m)]
                             ELSE queue
  /\ pool' = [pool EXCEPT ![t].running = @ \ {m}, ![t].idle = @ + 1]
  /\ UNCHANGED <<mu, consumers, tc, worker, consumeLoop, call, declared,
                 workerGauge, pvars, activeTenants, proc>>

SvcWorkerRun(t, m) == \E insertOk \in BOOLEAN : SvcWorkerTask(t, m, insertOk)

\* main of cmd/server after the signal: server.Shutdown(ctx), "Server
\* exiting", return; every goroutine ends with the process
Shutdown ==
  /\ proc = "running"
  /\ proc' = "exited"
  /\ UNCHANGED <<mvars, pvars, pool, activeTenants>>

\* a producer publishes to a tenant queue of the service
SvcPublish(id) == proc = "running" /\ Publish(id)

NextService ==
  \/ \E id \in Tenants : SvcCreateTenant(id)
  \/ \E id \in Tenants : SvcDeleteTenant(id)
  \/ \E id \in Tenants, n \in NVals : SvcUpdateConcurrency(id, n)
  \/ \E id \in Tenants : SvcPublish(id)
  \/ \E t \in Tenants : SvcConsume(t)
  \/ \E t \in Tenants : SvcSelect(t)
  \/ \E t \in Tenants : SvcSubmit(t)
  \/ \E t \in Tenants : SvcRun(t)
  \/ \E t \in Tenants : SvcWorkerRecv(t)
  \/ \E t \in Tenants, m \in Msgs : SvcWorkerRun(t, m)
  \/ Shutdown

SpecService == Init /\ [][NextService]_vars

(* ----------------------- one tenant, fair scheduling ------------------- *)
\* a call that waits in stopWorkers goes on as soon as its wait is over
ManagerStep(k) == RemoveFinish(k) \/ UpdateFinish(k) \/ Return(k)

FairCalls == Fairness /\ \A k \in Callers : WF_vars(ManagerStep(k))

\* the first create of the process
CreateOnce(k, id) == Allocated = {} /\ AddTenantWithAMQP(k, id)

\* one tenant is created, then resized and deleted by concurrent requests
NextOnce ==
  \/ \E k \in Callers, id \in Ids : CreateOnce(k, id)
  \/ \E k \in Callers, id \in Ids : RemoveTenantWithAMQP(k, id)
  \/ \E k \in Callers : RemoveFinish(k)
  \/ \E k \in Callers, id \in Ids, n \in NVals : UpdateConcurrency(k, id, n)
  \/ \E k \in Callers : UpdateFinish(k)
  \/ \E k \in Callers : Return(k)
  \/ \E id \in Ids : Publish(id)
  \/ \E c \in CIds : ConsumeRecv(c)
  \/ \E c \in CIds : ConsumeSend(c)
  \/ \E c \in CIds, i \in Slots : WorkerSelect(c, i)
  \/ \E c \in CIds, i \in Slots : WorkerInsert(c, i)
  \/ \E c \in CIds, i \in Slots : WorkerSleep(c, i)

SpecOnce == Init /\ [][NextOnce]_vars /\ FairCalls

\* one tenant is created and deleted while a producer sends a burst
NextStop ==
  \/ \E k \in Callers, id \in Ids : CreateOnce(k, id)
  \/ \E k \in Callers, id \in Ids : RemoveTenantWithAMQP(k, id)
  \/ \E k \in Callers : RemoveFinish(k)
  \/ \E k \in Callers : Return(k)
  \/ \E id \in Ids : PublishBurst(id)
  \/ \E c \in CIds : ConsumeRecv(c)
  \/ \E c \in CIds : ConsumeSend(c)
  \/ \E c \in CIds, i \in Slots : WorkerSelect(c, i)
  \/ \E c \in CIds, i \in Slots : WorkerInsert(c, i)
  \/ \E c \in CIds, i \in Slots : WorkerSleep(c, i)

SpecStop == Init /\ [][NextStop]_vars /\ FairCalls

(* ----------------------- worker.WorkerPool.SetSize --------------------- *)
\* the task SetSize submits to make a worker leave: func() { panic("exit") }
ExitTask == 0

\* sizes a caller asks for
PoolSizes == 0..MaxPool

\* WorkerPool.SetSize(size) on the pool of tenant t: delta > 0 starts delta
\* workers; delta < 0 lowers workerCount and sends -delta exit tasks
PoolSetSize(t, size) ==
  /\ proc = "running"
  /\ pool[t].ctx = "live" /\ ~pool[t].closed
  /\ LET delta == size - pool[t].workerCount
     IN IF delta >= 0
          THEN /\ PoolLive(t) + delta <= MaxPool
               /\ pool' = [pool EXCEPT ![t].workerCount = size,
                                       ![t].idle = @ + delta]
          ELSE /\ Len(pool[t].taskChan) - delta <= taskChanCap
               /\ Len(pool[t].taskChan) - delta <= MaxPool
               /\ pool' = [pool EXCEPT
                             ![t].workerCount = size,
                             ![t].taskChan = @ \o [j \in 1..(-delta) |-> ExitTask]]
  /\ UNCHANGED <<mvars, pvars, activeTenants, proc>>

\* a worker dequeues an exit task and runs it: the panic is recovered by
\* nothing and ends the process with all its goroutines
PoolWorkerExit(t) ==
  /\ proc = "running"
  /\ pool[t].idle > 0
  /\ pool[t].taskChan # <<>>
  /\ Head(pool[t].taskChan) = ExitTask
  /\ pool' = [pool EXCEPT ![t].idle = @ - 1, ![t].exited = @ + 1,
                          ![t].taskChan = Tail(@)]
  /\ proc' = "crashed"
  /\ UNCHANGED <<mvars, pvars, activeTenants>>

\* one tenant with its pool, deliveries, and resizes of the pool
NextPool ==
  \/ \E id \in Ids : SvcCreateTenant(id)
  \/ \E t \in Ids, n \in PoolSizes : PoolSetSize(t, n)
  \/ \E id \in Ids : SvcPublish(id)
  \/ \E t \in Ids : SvcConsume(t)
  \/ \E t \in Ids : SvcSelect(t)
  \/ \E t \in Ids : SvcSubmit(t)
  \/ \E t \in Ids : SvcWorkerRecv(t)
  \/ \E t \in Ids, m \in Msgs : SvcWorkerRun(t, m)
  \/ \E t \in Ids : PoolWorkerExit(t)

SpecPool == Init /\ [][NextPool]_vars

(* ============================== claims =============================== *)
\* consumer c has been constructed
Built(c) == tc[c].ID # NoTenant

\* consumer c is running: its stop signal has not fired and its dispatcher
\* or some worker task is alive
Active(c) == /\ Built(c) /\ tc[c].StopCh = "open"
             /\ (consumeLoop[c].pc # "none" \/ wg(c) > 0)

ActiveFor(t) == {c \in CIds : tc[c].ID = t /\ Active(c)}

\* manager call of request k is at its return
Returns(k, op) == call[k].phase = "ret" /\ call[k].op = op

\* RemoveTenantWithAMQP has stopped consumer c and taken it out of the registry
Stopped(c) == /\ Built(c) /\ tc[c].StopCh = "closed"
              /\ consumers[tc[c].ID] # c

\* no task of consumer c is left and none will be started
Dead(c) == Stopped(c) /\ wg(c) = 0 /\ consumeLoop[c].pc = "none"

Settled(m) == msgs[m].acks + msgs[m].nacks > 0

\* C1: at most one running Tenant Consumer exists per tenant id, and none
\* exists for t when RemoveTenantWithAMQP(t) returns.
C1_OneConsumerPerTenant ==
  /\ \A t \in Tenants : Cardinality(ActiveFor(t)) <= 1
  /\ \A k \in Callers :
       Returns(k, "remove") /\ call[k].ret = "nil" => ActiveFor(call[k].id) = {}

\* C2: creating a tenant that is already registered returns AlreadyExists,
\* builds no second consumer and leaves the registry entry as it was.
C2_DuplicateCreateRejected ==
  \A k \in Callers :
    Returns(k, "add") /\ call[k].pre # 0 =>
      /\ call[k].ret = "AlreadyExists"
      /\ consumers[call[k].id] = call[k].pre
      /\ Cardinality({c \in CIds : tc[c].ID = call[k].id /\ tc[c].StopCh = "open"}) = 1

\* C3: every delivery a dispatcher received is eventually acked or nacked:
\* no delivery is still unsettled when every task of its consumer has ended.
C3_DeliverySettled ==
  \A m \in Msgs : msgs[m].owner # 0 /\ Dead(msgs[m].owner) => Settled(m)

\* C4: the insert of a delivery is attempted at most MAX_ATTEMPTS times, and
\* the delivery is routed to the DLQ (published, or nacked when the publish
\* fails) only after exactly MAX_ATTEMPTS attempts that all failed.
C4_RetryBound ==
  \A m \in Msgs :
    /\ msgs[m].att <= MAX_ATTEMPTS
    /\ msgs[m].dlq + msgs[m].nacks > 0 =>
         msgs[m].att = MAX_ATTEMPTS /\ msgs[m].rows = 0

C4_Witness ==
  \E m \in Msgs : msgs[m].dlq = 1 /\ msgs[m].acks = 1 /\ msgs[m].att = MAX_ATTEMPTS

\* C5: when UpdateConcurrency(t, n) returns for a registered tenant and
\* 1 <= n <= MaxN, the consumer of t has exactly n live worker tasks.
C5_PoolConverges ==
  \A k \in Callers :
    (Returns(k, "update") /\ call[k].ret = "nil" /\ call[k].pre # 0
       /\ call[k].n \in 1..MaxN)
      => wg(call[k].pre) = call[k].n

\* the row of the store with id i
RowOf(i) == CHOOSE r \in store : r.id = i

\* C6: a GetMessages traversal from the empty cursor that follows next_cursor
\* until it is empty returns every stored message exactly once, in ascending
\* (created_at, id) order.
C6_TraversalComplete ==
  (reader = "get" /\ start = 0 /\ Finished) =>
    /\ Len(seen) = Cardinality(store)
    /\ {seen[j] : j \in 1..Len(seen)} = {r.id : r \in store}
    /\ \A i, j \in 1..Len(seen) : i < j => Before(RowOf(seen[i]), RowOf(seen[j]))

C6_Witness ==
  /\ reader = "get" /\ start = 0 /\ Finished /\ calls >= 2
  /\ Cardinality(store) >= 3
  /\ \E a, b \in store : a.id # b.id /\ a.created_at = b.created_at
  /\ \E a, b \in store : a.id < b.id /\ a.created_at > b.created_at

\* C7: with exactly k*limit stored messages a traversal from the empty cursor
\* ends with the k-th call: that call returns an empty next_cursor.
C7_ExactMultipleEnds ==
  \A k \in 1..MaxRows :
    (reader = "get" /\ start = 0 /\ Cardinality(store) = k * limit /\ calls = k)
      => nextCursor = 0

\* C8: a page holds at most limit messages; next_cursor is the id of its last
\* message when it holds exactly limit messages and empty when it holds fewer.
C8_NextCursorRule ==
  (reader \in {"get", "list"} /\ calls > 0) =>
    /\ Len(page) <= limit
    /\ Len(page) = limit => nextCursor = page[Len(page)]
    /\ Len(page) < limit => nextCursor = 0

C8_Witness ==
  /\ reader = "get" /\ calls > 1 /\ limit > 1
  /\ Len(page) = limit /\ nextCursor = page[Len(page)]

\* C9: once RemoveTenantWithAMQP has stopped a consumer, no worker of that
\* consumer inserts, acks, nacks or publishes to the DLQ any more: the record
\* of every delivery the consumer received stays as it is.
C9_NoWorkAfterStop ==
  [][\A m \in Msgs :
       msgs[m].owner # 0 /\ Stopped(msgs[m].owner) => msgs'[m] = msgs[m]]_vars

C9_Witness ==
  \E m \in Msgs : /\ msgs[m].owner # 0 /\ Stopped(msgs[m].owner)
                  /\ msgs[m].att > 0 /\ Settled(m)

\* C10: delete and update of a tenant id that is not registered answer
\* NotFound (404) and change neither the registry nor any consumer.
C10_AbsentTenantNotFound ==
  [][\A k \in Callers :
       (call[k].phase = "idle" /\ call'[k].op \in {"remove", "update"}
          /\ call'[k].pre = 0)
         => /\ HandlerStatus(call'[k]) = 404
            /\ UNCHANGED <<consumers, tc, worker, consumeLoop>>]_vars

\* C11: UpdateConcurrency(t, n) of a registered tenant with n < 1 (outside
\* every [1, MAX_WORKERS]) is rejected with InvalidConfig and changes neither
\* the worker pool, nor the gauge of the configured count, nor the registry.
C11_InvalidWorkersRejected ==
  [][\A k \in Callers :
       (call[k].phase = "idle" /\ call'[k].op = "update"
          /\ call'[k].pre # 0 /\ call'[k].n < 1)
         => /\ call'[k].ret = "InvalidConfig"
            /\ call'[k].phase = "ret"
            /\ UNCHANGED <<consumers, tc, worker, workerGauge>>]_vars

\* C12: a delivery whose insert failed on all MAX_ATTEMPTS attempts has been
\* published once to the DLQ and acked, or (publish failed) nacked and not
\* published; a delivery routed to the DLQ or nacked has no row.
C12_DlqAfterMaxAttempts ==
  \A m \in Msgs :
    /\ (msgs[m].att = MAX_ATTEMPTS /\ msgs[m].rows = 0) =>
          \/ msgs[m].dlq = 1 /\ msgs[m].acks = 1 /\ msgs[m].nacks = 0
          \/ msgs[m].dlq = 0 /\ msgs[m].acks = 0 /\ msgs[m].nacks = 1
    /\ (msgs[m].dlq > 0 \/ msgs[m].nacks > 0) =>
          msgs[m].rows = 0 /\ msgs[m].dlq <= 1

C12_Witness ==
  \E m \in Msgs : /\ msgs[m].att = MAX_ATTEMPTS /\ msgs[m].rows = 0
                  /\ msgs[m].nacks = 1 /\ msgs[m].dlq = 0

\* C13: an AddTenantWithAMQP that returns an error has undone its completed
\* steps: declared queues, registry, consumers and their tasks are as before.
C13_CreateRollsBack ==
  [][\A k \in Callers :
       (call[k].phase = "idle" /\ call'[k].op = "add" /\ call'[k].ret = "err")
         => UNCHANGED <<declared, consumers, tc, worker, consumeLoop>>]_vars

\* C14: when AddTenantWithAMQP(t) returns nil, t has a partition and a row in
\* the tenants table, both queues are declared, the delivery stream is open
\* and the registry maps t to a running consumer.
C14_CreateEstablishesAll ==
  \A k \in Callers :
    (Returns(k, "add") /\ call[k].ret = "nil") =>
      LET t == call[k].id
      IN /\ t \in partitions
         /\ t \in tenantRows
         /\ {DlqName(t), QueueName(t)} \subseteq declared
         /\ consumers[t] # 0
         /\ tc[consumers[t]].amqpDeliveryCh = "open"
         /\ Active(consumers[t])

C16_QueueGoneRowsKept ==
  [][\A k \in Callers :
       /\ (call'[k].op = "remove" /\ call'[k].phase = "ret"
             /\ call'[k].ret = "nil")
            => QueueName(call'[k].id) \notin declared'
       /\ (call'[k].op = "remove" /\ call'[k] # call[k])
            => /\ \A m \in Msgs : msgs'[m].rows = msgs[m].rows
               /\ store' = store /\ partitions' = partitions]_vars

\* C19: when RemoveTenantWithAMQP returns, every delivery that was in the task
\* channel of the consumer at the moment the stop began has been dequeued and
\* settled by a worker.
C19_PendingProcessedBeforeStop ==
  \A k \in Callers :
    (Returns(k, "remove") /\ call[k].pre # 0 /\ call[k].ret = "nil") =>
      \A j \in 1..Len(call[k].pend) : Settled(call[k].pend[j])

\* delivery m is stored as one row of its tenant and acked
Stored(m) == /\ msgs[m].rows = 1 /\ msgs[m].acks = 1
             /\ msgs[m].owner # 0 /\ tc[msgs[m].owner].ID = msgs[m].q

\* C17: while tenant t is created and stays registered with its worker, and
\* the store accepts inserts, every message published to tenant_t_queue is
\* eventually stored as exactly one row of t and acked.
C17_PublishedIsStored ==
  \A m \in Msgs :
    (msgs[m].q # NoTenant /\ consumers[msgs[m].q] # 0) ~> Stored(m)

C17_Witness ==
  \E m \in Msgs : /\ msgs[m].q # NoTenant /\ consumers[msgs[m].q] # 0
                  /\ Stored(m) /\ msgs[m].att = 1

\* consumer c is the one the registry maps its tenant to
Registered(c) == tc[c].ID # NoTenant /\ consumers[tc[c].ID] = c

\* C18: a registered consumer whose delivery stream has closed eventually has
\* no worker left and is no longer the registered consumer of its tenant.
C18_ClosedStreamDrains ==
  \A c \in CIds :
    (Registered(c) /\ tc[c].amqpDeliveryCh = "closed")
      ~> (wg(c) = 0 /\ ~Registered(c))

\* C20: with inserts between the page requests, a GetMessages traversal from
\* the empty cursor returns no message twice and returns the messages in
\* strictly increasing (created_at, id) order.
C20_NoRepeatUnderInserts ==
  (reader = "get" /\ start = 0) =>
    \A i, j \in 1..Len(seen) :
      i < j => /\ seen[i] # seen[j]
               /\ Before(RowOf(seen[i]), RowOf(seen[j]))

C20_Witness ==
  /\ reader = "get" /\ start = 0 /\ calls >= 2 /\ Len(seen) >= 2
  /\ \E r \in store : /\ \A j \in 1..Len(seen) : seen[j] # r.id
                       /\ Before(r, RowOf(seen[Len(seen)]))

\* live worker goroutines of the consumers built for tenant t
LiveWorkers(t) ==
  Cardinality({x \in CIds \X Slots :
                 tc[x[1]].ID = t /\ worker[x[1]][x[2]].pc # "none"})

\* C21: whenever no manager call is in progress, the tenant_workers gauge of
\* every tenant equals the number of live worker goroutines serving it.
C21_GaugeIsLiveWorkers ==
  (mu = 0) => \A t \in Tenants : workerGauge[t] = LiveWorkers(t)

\* C27: a resize loses no work: a worker exits only between two tasks, the
\* steps of UpdateConcurrency leave the task channel as it is, and when
\* UpdateConcurrency(t, n) with n >= 1 returns while deliveries sit in the
\* task channel, the consumer has a live worker to dequeue them.
C27_ResizeKeepsWork ==
  [][/\ \A c \in CIds, i \in Slots :
          (worker[c][i].pc # "none" /\ worker'[c][i].pc = "none")
            => worker[c][i].pc = "select"
     /\ \A k \in Callers :
          (call'[k].op = "update" /\ call'[k] # call[k] /\ call'[k].pre # 0)
            => tc'[call'[k].pre].TaskCh = tc[call'[k].pre].TaskCh
     /\ \A k \in Callers :
          (call'[k].op = "update" /\ call'[k].phase = "ret"
             /\ call'[k].ret = "nil" /\ call'[k].pre # 0 /\ call'[k].n >= 1
             /\ tc'[call'[k].pre].TaskCh # <<>>)
            => \E i \in Slots : worker'[call'[k].pre][i].pc # "none"]_vars

\* C28: a worker sleeps only after a failed attempt with attempt <
\* MAX_ATTEMPTS: not after the last attempt has been routed to the DLQ.
C28_SleepOnlyBeforeRetry ==
  \A c \in CIds, i \in Slots :
    worker[c][i].pc = "sleep" => worker[c][i].attempt < MAX_ATTEMPTS

\* C30: at most one manager call is between Lock and Unlock, it is the one
\* recorded as holder of the mutex, and the registry, the stop-channel list
\* of a consumer and its set of spawned workers change only in a step of
\* the call that holds the mutex.
C30_Serialised ==
  [][/\ Cardinality({k \in Callers : call'[k].phase # "idle"}) <= 1
     /\ \A k \in Callers : call'[k].phase # "idle" => mu' = k
     /\ (\/ consumers' # consumers
         \/ \E c \in CIds : tc'[c].workerStopChans # tc[c].workerStopChans
         \/ \E c \in CIds, i \in Slots :
              worker[c][i].pc = "none" /\ worker'[c][i].pc # "none")
          => /\ mu' # 0
             /\ mu \in {0, mu'}
             /\ call'[mu'].phase # "idle"]_vars

C30_Witness ==
  \E k \in Callers, j \in Callers :
    /\ j # k /\ mu = k /\ call[k].op = "update" /\ call[k].phase = "wait"
    /\ call[j].phase = "idle"
    /\ \E c \in CIds : worker[c][1].pc = "insert"

\* C29: a delivery is positively acknowledged only after a store insert
\* for it has succeeded or after its body has been published to the DLQ:
\* there are never more acks than stored rows plus DLQ publications.
C29_AckOnlyAfterInsertOrDlq ==
  \A m \in Msgs :
    /\ msgs[m].acks > 0 => (msgs[m].rows > 0 \/ msgs[m].dlq > 0)
    /\ msgs[m].acks <= msgs[m].rows + msgs[m].dlq

C29_Witness ==
  \E m \in Msgs : msgs[m].acks = 1 /\ msgs[m].rows = 1 /\ msgs[m].att = 2

\* C26: a delete performs its teardown in order, each step on a state where
\* the earlier ones are finished: the per-worker stop channels are closed
\* only once the consumer's stop signal has fired; the broker consumer is
\* cancelled only once every stop channel is closed and every worker has
\* exited; the queue is deleted only once the consumer is cancelled; the
\* channel is closed only once the queue is gone; and the consumer leaves
\* the registry only once its channel is closed.
C26_TeardownInOrder ==
  [][\A k \in Callers :
       (call[k].op = "remove" /\ call[k].pre # 0)
         => LET c  == call[k].pre
                id == call[k].id
            IN /\ tc'[c].workerStopChans # tc[c].workerStopChans
                    => tc[c].StopCh = "closed"
               /\ (tc[c].amqpDeliveryCh = "open"
                     /\ tc'[c].amqpDeliveryCh = "closed")
                    => /\ tc[c].StopCh = "closed"
                       /\ tc[c].workerStopChans = AllClosed(tc[c].workerStopChans)
                       /\ wg(c) = 0
               /\ (QueueName(id) \in declared /\ QueueName(id) \notin declared')
                    => tc[c].amqpDeliveryCh = "closed"
               /\ (tc[c].amqpChannel = "open" /\ tc'[c].amqpChannel = "closed")
                    => QueueName(id) \notin declared
               /\ (consumers[id] = c /\ consumers'[id] = 0)
                    => tc[c].amqpChannel = "closed"]_vars

C26_Witness ==
  \E k \in Callers :
    /\ call[k].op = "remove" /\ call[k].phase = "ret" /\ call[k].pre # 0
    /\ call[k].ret = "nil"
    /\ consumers[call[k].id] = 0
    /\ tc[call[k].pre].amqpChannel = "closed"
    /\ \E m \in Msgs : msgs[m].owner = call[k].pre /\ msgs[m].acks = 1

\* the consumer goroutine of tenant t is consuming from the broker
Consuming(t) == pool[t].consumer.pc \in {"select", "submit"}

\* C22: in the service layer, for an active tenant whose concurrency has
\* been set to n >= 1, the number of worker goroutines draining its pool
\* equals n.
C22_PoolFollowsConfig ==
  \A t \in Tenants :
    (activeTenants[t].exists /\ activeTenants[t].Workers >= 1)
      => PoolLive(t) = activeTenants[t].Workers

\* C23: in the service layer a message whose processing keeps failing ends
\* in a dead-letter destination instead of going round for ever: once it
\* has failed MAX_ATTEMPTS times it has been dead-lettered.
C23_FailedIsDeadLettered ==
  \A m \in Msgs : msgs[m].nacks >= MAX_ATTEMPTS => msgs[m].dlq > 0

\* C24: no broker channel is used by the consumers of two tenants.
C24_ChannelPerConsumer ==
  \A t \in Tenants, u \in Tenants :
    (t # u /\ Consuming(t) /\ Consuming(u))
      => pool[t].channel # pool[u].channel

\* C25: when the process has exited after a shutdown, every registered
\* tenant consumer was stopped first: its context is cancelled, no task is
\* in flight and no worker of its pool is left.
C25_ShutdownStopsConsumers ==
  proc = "exited"
    => \A t \in Tenants :
         activeTenants[t].exists
           => /\ pool[t].ctx = "done"
              /\ pool[t].running = {}
              /\ PoolLive(t) = 0

\* C31: in the service layer, once DeleteTenant(t) has returned (the
\* context of t is cancelled), no worker of t's pool executes a further
\* task: no insert, ack or nack happens for a message of tenant t.
C31_NoTaskAfterDelete ==
  [][\A m \in Msgs :
       (msgs[m].q # NoTenant /\ pool[msgs[m].q].ctx = "done")
         => /\ msgs'[m].rows = msgs[m].rows
            /\ msgs'[m].acks = msgs[m].acks
            /\ msgs'[m].nacks = msgs[m].nacks]_vars

\* C34: in the service layer no task is submitted to a pool's task channel
\* after Run has closed it: consumeMessages never sends on the closed
\* channel, so its goroutine never panics and the process keeps running.
C34_NoSubmitAfterClose ==
  /\ proc # "crashed"
  /\ \A t \in Tenants : pool[t].consumer.pc # "panic"

\* C32: each delivery a worker dequeues is settled exactly once: it is never
\* acked twice, never both acked and nacked, and no worker is making an
\* insert attempt for a delivery that is already settled.
C32_SettledOnce ==
  \A m \in Msgs :
    /\ msgs[m].acks + msgs[m].nacks <= 1
    /\ Settled(m)
         => \A c \in CIds, i \in Slots :
              ~(worker[c][i].pc = "insert" /\ worker[c][i].msg = m)

C32_Witness ==
  \E m \in Msgs :
    /\ msgs[m].att = maxRetry /\ msgs[m].dlq = 1 /\ msgs[m].acks = 1
    /\ \A c \in CIds, i \in Slots : worker[c][i].msg # m

\* C33: no sequence of AddTenantWithAMQP, UpdateConcurrency and
\* RemoveTenantWithAMQP calls makes the manager panic: every call reaches
\* its return normally.
C33_NoPanic ==
  \A k \in Callers : call[k].ret # "panic"

\* C37: GetMessages called with a cursor id that matches no stored message
\* returns an empty page with an empty next_cursor, whatever the store holds.
C37_UnknownCursorEmptyPage ==
  (reader = "get" /\ calls > 0 /\ cursor # 0
     /\ \A r \in store : r.id # cursor)
    => page = <<>> /\ nextCursor = 0

C37_Witness ==
  /\ reader = "get" /\ calls = 1 /\ cursor # 0
  /\ \A r \in store : r.id # cursor
  /\ \E a, b \in store : Before(a, [id |-> cursor, created_at |-> b.created_at])
                          /\ Before([id |-> cursor, created_at |-> b.created_at], b)
  /\ page = <<>>

\* C35: RemoveTenantWithAMQP and UpdateConcurrency always come to an end:
\* every call that has taken the lock gets through its wait for the workers
\* and releases the lock again.
C35_CallsTerminate ==
  \A k \in Callers :
    (call[k].phase # "idle") ~> (call[k].phase = "idle" /\ mu # k)

C35_Witness ==
  \E k \in Callers :
    /\ mu = k /\ call[k].phase = "wait" /\ call[k].op = "update"
    /\ \E c \in CIds : /\ worker[c][1].pc = "sleep"
                        /\ worker[c][1].attempt = maxRetry

\* C36: after a consumer's stop signal has fired, its dispatcher eventually
\* exits, also when it is blocked on the send to a full task channel that
\* no worker receives from.
C36_DispatcherExits ==
  \A c \in CIds :
    (tc[c].StopCh = "closed") ~> (consumeLoop[c].pc = "none")

C36_Witness ==
  \E c \in CIds :
    /\ tc[c].StopCh = "closed"
    /\ consumeLoop[c].pc = "send"
    /\ Len(tc[c].TaskCh) = TaskChCap
    /\ wg(c) = 0

\* C38: after WorkerPool.SetSize(n), once the tasks queued before the call
\* have been executed, exactly n workers are live and workerCount is n, and
\* the process is still running.
C38_SetSizeConverges ==
  \A t \in Tenants :
    (pool[t].ctx = "live" /\ pool[t].taskChan = <<>>)
      => /\ proc = "running"
         /\ PoolLive(t) = pool[t].workerCount

====
